---- MODULE Spec2Model ----
(***************************************************************************)
(* moon-ci-retrospect (src/index.ts): the report-to-presentation pipeline. *)
(*                                                                         *)
(* Strings that the code takes apart (targets, log text) are sequences of  *)
(* one-character strings; strings it only passes on (commands, statuses,   *)
(* file names) are TLA+ strings.  An optional value (string | undefined)   *)
(* is <<>> when absent and <<v>> when present.                             *)
(*                                                                         *)
(* The pipeline is one async function: a step of the model is the code run *)
(* between two awaits.  The file system is an external collaborator: what  *)
(* a path holds is drawn when the code stats it, and may be removed while  *)
(* the code is suspended between the stat and the read that follows.       *)
(***************************************************************************)
EXTENDS Integers, Sequences, FiniteSets, TLC

VARIABLES
    pc,           \* where main() is suspended
    env,          \* process.env["GITHUB_ACTIONS"]
    file,         \* what the path last stat'ed holds on disk right now
    cand,         \* loadReport: index of the candidate file name
    report,       \* main: the loaded report, <<>> before / when null
    i,            \* main: index of the action being processed
    stdout,       \* readStatus: the stdout text already captured
    taskResults,  \* main: the records collected for the summary
    summary,      \* main: the summary document, <<>> when null
    events,       \* every observable call, in program order
    exitCode,     \* <<>> while running, <<code>> once the process has ended
    fnIn, fnOut   \* argument and result of a helper applied on its own

vars == <<pc, env, file, cand, report, i, stdout, taskResults, summary,
          events, exitCode, fnIn, fnOut>>

pipeVars == <<pc, env, file, cand, report, i, stdout, taskResults, summary,
              events, exitCode>>

----------------------------------------------------------------------------
(* Bounds *)

MaxActions == 3

MaxTargetLen == 4

MaxLogLen == 3

----------------------------------------------------------------------------
(* Strings *)

Chars(n, alphabet) == UNION {[1..m -> alphabet] : m \in 0..n}

Unknown == <<"u", "n", "k", "n", "o", "w", "n">>

Colon == ":"

IsWhitespace(c) == c \in {" ", "\n", "\t"}

RECURSIVE TrimStart(_)
TrimStart(s) ==
    IF s # <<>> /\ IsWhitespace(Head(s)) THEN TrimStart(Tail(s)) ELSE s

RECURSIVE TrimEnd(_)
TrimEnd(s) ==
    IF s # <<>> /\ IsWhitespace(s[Len(s)])
    THEN TrimEnd(SubSeq(s, 1, Len(s) - 1))
    ELSE s

Trim(s) == TrimEnd(TrimStart(s))

\* String.prototype.split(":"): every colon separates; "" splits to [""].
RECURSIVE Split(_)
Split(s) ==
    IF \E n \in 1..Len(s) : s[n] = Colon
    THEN LET n == CHOOSE n \in 1..Len(s) :
                    /\ s[n] = Colon
                    /\ \A m \in 1..(n - 1) : s[m] # Colon
         IN  <<SubSeq(s, 1, n - 1)>> \o Split(SubSeq(s, n + 1, Len(s)))
    ELSE <<s>>

\* parts[n] ?? "unknown"
PartOr(parts, n) == IF n <= Len(parts) THEN parts[n] ELSE Unknown

parseTarget(target) ==
    LET parts == Split(target)
    IN  [project |-> PartOr(parts, 1), task |-> PartOr(parts, 2)]

sanitizeProjectName(project) ==
    [n \in 1..Len(project) |-> IF project[n] = "/" THEN "-" ELSE project[n]]

TargetOf(id) == id.project \o <<Colon>> \o id.task

----------------------------------------------------------------------------
(* Status classifier *)

bgGreen(text) == [bg |-> "green", text |-> text]

bgRed(text) == [bg |-> "red", text |-> text]

bgBlue(text) == [bg |-> "blue", text |-> text]

statusBadges ==
    ("running" :> bgGreen(" RUNNING ")) @@
    ("passed" :> bgGreen(" PASS ")) @@
    ("failed" :> bgRed(" FAIL ")) @@
    ("timed-out" :> bgRed(" TIMED OUT ")) @@
    ("aborted" :> bgRed(" ABORTED ")) @@
    ("invalid" :> bgRed(" INVALID ")) @@
    ("failed-and-abort" :> bgRed(" FAILED AND ABORT ")) @@
    ("skipped" :> bgBlue(" SKIP ")) @@
    ("cached" :> bgBlue(" CACHED ")) @@
    ("cached-from-remote" :> bgBlue(" REMOTE CACHED "))

ActionStatus == DOMAIN statusBadges

\* statusBadges[status]: a property lookup, undefined (<<>>) for a missing key.
BadgeLookup(status) ==
    IF status \in DOMAIN statusBadges THEN <<statusBadges[status]>> ELSE <<>>

getStatusEmoji(status) ==
    CASE status = "passed" -> "check-mark"
      [] status \in {"failed", "timed-out", "aborted", "invalid",
                     "failed-and-abort"} -> "cross-mark"
      [] status = "skipped" -> "next-track"
      [] status \in {"cached", "cached-from-remote"} -> "floppy-disk"
      [] status = "running" -> "runner"
      [] OTHER -> "question-mark"

----------------------------------------------------------------------------
(* Result normalizer *)

\* (mutant) the loop without its `continue`
IsRunTaskUnfiltered(action) == action.node.action # ""

IsRunTask(action) == action.node.action = "run-task"

\* The first operation whose meta.type is "task-execution" gives the command.
commandOf(action) ==
    LET ops == action.operations
        hits == {n \in 1..Len(ops) : ops[n].type = "task-execution"}
    IN  IF hits = {} THEN <<>>
        ELSE ops[CHOOSE n \in hits : \A m \in hits : n <= m].command

HasOutput(text) == Trim(text) # <<>>

\* (mutant) the stream stored trimmed
StoredOutputTrimmed(text) == IF HasOutput(text) THEN <<Trim(text)>> ELSE <<>>

\* hasStdout ? stdout : undefined
StoredOutput(text) == IF HasOutput(text) THEN <<text>> ELSE <<>>

\* The record pushed to taskResults; command is typeof-string-or-undefined.
TaskResult(action, out, err) ==
    [target    |-> TargetOf(parseTarget(action.node.target)),
     status    |-> action.status,
     command   |-> commandOf(action),
     hasStdout |-> HasOutput(out),
     hasStderr |-> HasOutput(err),
     stdout    |-> StoredOutput(out),
     stderr    |-> StoredOutput(err)]

\* Index of the first run-task action at or after n; Len + 1 when none.
NextRunTask(actions, n) ==
    LET hits == {k \in n..Len(actions) : IsRunTask(actions[k])}
    IN  IF hits = {} THEN Len(actions) + 1
        ELSE CHOOSE k \in hits : \A m \in hits : k <= m

----------------------------------------------------------------------------
(* Console renderer *)

Ev(op, n, arg) == [op |-> op, i |-> n, arg |-> arg]

\* typeof command === "string"
ConsoleHasCommand(command) == command # <<>>

\* (mutant) endGroup() moved inside the stderr branch
ConsoleGroupUnclosed(n, action, out, err) ==
    LET id == parseTarget(action.node.target)
        command == commandOf(action)
    IN  <<Ev("startGroup", n, [badge  |-> BadgeLookup(action.status),
                               target |-> TargetOf(id)])>>
        \o (IF ConsoleHasCommand(command)
            THEN <<Ev("log", n, [what |-> "command", text |-> command])>>
            ELSE <<>>)
        \o (IF HasOutput(out)
            THEN <<Ev("log", n, [what |-> "stdBadges.out", text |-> <<>>]),
                   Ev("log", n, [what |-> "stdout", text |-> <<out>>])>>
            ELSE <<>>)
        \o (IF HasOutput(err)
            THEN <<Ev("log", n, [what |-> "stdBadges.err", text |-> <<>>]),
                   Ev("log", n, [what |-> "stderr", text |-> <<err>>]),
                   Ev("endGroup", n, <<>>)>>
            ELSE <<>>)

ConsoleGroup(n, action, out, err) ==
    LET id == parseTarget(action.node.target)
        command == commandOf(action)
    IN  <<Ev("startGroup", n, [badge  |-> BadgeLookup(action.status),
                               target |-> TargetOf(id)])>>
        \o (IF ConsoleHasCommand(command)
            THEN <<Ev("log", n, [what |-> "command", text |-> command])>>
            ELSE <<>>)
        \o (IF HasOutput(out)
            THEN <<Ev("log", n, [what |-> "stdBadges.out", text |-> <<>>]),
                   Ev("log", n, [what |-> "stdout", text |-> <<out>>])>>
            ELSE <<>>)
        \o (IF HasOutput(err)
            THEN <<Ev("log", n, [what |-> "stdBadges.err", text |-> <<>>]),
                   Ev("log", n, [what |-> "stderr", text |-> <<err>>])>>
            ELSE <<>>)
        \o <<Ev("endGroup", n, <<>>)>>

----------------------------------------------------------------------------
(* Summary renderer *)

\* A JavaScript string used as a condition: undefined and "" are falsy.
Truthy(command) == command # <<>> /\ command[1] # ""

\* command || "-"
CommandCell(command) == IF Truthy(command) THEN command[1] ELSE "-"

OutputsCell(result) ==
    LET outputs == (IF result.hasStdout THEN <<"stdout">> ELSE <<>>)
                   \o (IF result.hasStderr THEN <<"stderr">> ELSE <<>>)
    IN  IF outputs = <<>> THEN <<"-">> ELSE outputs

TableRow(result) ==
    [task    |-> result.target,
     status  |-> [emoji |-> getStatusEmoji(result.status), raw |-> result.status],
     command |-> CommandCell(result.command),
     outputs |-> OutputsCell(result)]

El(el, data) == [el |-> el, data |-> data]

DetailSection(result) ==
    <<El("heading3", result.target)>>
    \o (IF Truthy(result.command)
        THEN <<El("codeBlock.bash", result.command[1])>> ELSE <<>>)
    \o (IF result.hasStdout
        THEN <<El("heading4", "STDOUT"), El("codeBlock.text", result.stdout)>>
        ELSE <<>>)
    \o (IF result.hasStderr
        THEN <<El("heading4", "STDERR"), El("codeBlock.text", result.stderr)>>
        ELSE <<>>)
    \o <<El("break", <<>>)>>

RECURSIVE DetailSections(_)
DetailSections(results) ==
    IF results = <<>> THEN <<>>
    ELSE DetailSection(Head(results)) \o DetailSections(Tail(results))

SummaryIntro ==
    <<El("heading1", "Moon CI Retrospect Results"),
      El("raw", "This report shows the results of Moon CI task executions.")>>

BuildSummary(doc, results) ==
    doc
    \o <<El("table", [n \in 1..Len(results) |-> TableRow(results[n])]),
         El("break", <<>>)>>
    \o DetailSections(results)

IsGitHubActions(e) == e = <<"true">>

\* (mutant) the summary built without the length check
SummaryActiveAnyCount(e, doc, results) == IsGitHubActions(e) /\ doc # <<>>

\* isGitHubActions && summary && taskResults.length > 0
SummaryActive(e, doc, results) ==
    IsGitHubActions(e) /\ doc # <<>> /\ Len(results) > 0

----------------------------------------------------------------------------
(* The inputs: reports, files, environment *)

Op(type, command) == [type |-> type, command |-> command]

Action(kind, target, status, operations) ==
    [node       |-> [action |-> kind, target |-> target],
     status     |-> status,
     operations |-> operations]

\* Representative actions: a target with and without a colon, a status inside
\* and outside ActionStatus, a command found first, found after another
\* operation (and empty), and an action that is no task execution.
ActionPool ==
    {Action("run-task", <<"a", ":", "b">>, "passed",
            <<Op("task-execution", <<"npm test">>)>>),
     Action("run-task", <<"b">>, "bogus",
            <<Op("hash-generation", <<>>), Op("task-execution", <<"">>),
              Op("task-execution", <<"late">>)>>),
     Action("sync-project", <<>>, "passed", <<Op("sync-operation", <<>>)>>)}

Reports == {[actions |-> a] : a \in Chars(MaxActions, ActionPool)}

Absent == [kind |-> "absent", value |-> <<>>]

Malformed == [kind |-> "malformed", value |-> <<>>]

Json(r) == [kind |-> "json", value |-> r]

Text(t) == [kind |-> "text", value |-> t]

ReportFiles == {Absent, Malformed} \cup {Json(r) : r \in Reports}

\* A log whose text trimming would change.
LogTexts == {<<"x", "\n">>}

LogFiles == {Absent} \cup {Text(t) : t \in LogTexts}

EnvValues == {<<>>, <<"true">>, <<"false">>}

\* (mutant) the candidates in the other order
ReportFileNamesSwapped == <<"runReport.json", "ciReport.json">>

ReportFileNames == <<"ciReport.json", "runReport.json">>

ReportPath(fileName) == [root |-> "cache", dir |-> <<>>, name |-> fileName]

\* `${workspaceRoot}/.moon/cache/states/${sanitizedProject}/${task}/<name>`
LogPath(id, name) ==
    [root |-> "states",
     dir  |-> <<sanitizeProjectName(id.project), id.task>>,
     name |-> name]

CurrentAction == report[1].actions[i]

CurrentId == parseTarget(CurrentAction.node.target)

\* (mutant) the catch passing the failure on
CatchOutcomeFailing == [logged |-> TRUE, exitCode |-> 1]

\* The top-level catch: console.error(error); process.exit(0).
CatchOutcome == [logged |-> TRUE, exitCode |-> 0]

----------------------------------------------------------------------------
(* The pipeline *)

Init ==
    /\ pc = "statReport"
    /\ env \in EnvValues
    /\ file = Absent
    /\ cand = 1
    /\ report = <<>>
    /\ i = 0
    /\ stdout = <<>>
    /\ taskResults = <<>>
    /\ summary = <<>>
    /\ events = <<>>
    /\ exitCode = <<>>
    /\ fnIn = [fn |-> "none"]
    /\ fnOut = <<>>

\* main from the head of the action loop at index n until its next await:
\* the next run-task action's first stat, summary.write(), or the return.
Proceed(rep, n, results, evs, doc) ==
    LET k == NextRunTask(rep.actions, n)
    IN  /\ stdout' = <<>>
        /\ exitCode' = exitCode
        /\ IF k <= Len(rep.actions)
           THEN /\ i' = k
                /\ pc' = "statOut"
                /\ events' = evs
                /\ summary' = doc
           ELSE /\ i' = k
                /\ IF SummaryActive(env, doc, results)
                   THEN /\ summary' = <<BuildSummary(doc[1], results)>>
                        /\ events' = Append(evs, Ev("summary.write", 0, <<>>))
                        /\ pc' = "write"
                   ELSE /\ summary' = doc
                        /\ events' = evs
                        /\ pc' = "returned"

\* loadReport: await fileExists(reportPath) for the candidate at hand.
StatReport ==
    /\ pc = "statReport"
    /\ \E f \in ReportFiles :
        LET exists == f.kind # "absent"
            evs == Append(events,
                     Ev("stat", 0, [path   |-> ReportPath(ReportFileNames[cand]),
                                    exists |-> exists]))
        IN  /\ file' = f
            /\ IF exists
               THEN /\ pc' = "parse"
                    /\ events' = evs
                    /\ cand' = cand
               ELSE IF cand < Len(ReportFileNames)
               THEN /\ pc' = "statReport"
                    /\ events' = evs
                    /\ cand' = cand + 1
               ELSE /\ pc' = "returned"
                    /\ events' = Append(evs, Ev("warning", 0, <<>>))
                    /\ cand' = cand
    /\ UNCHANGED <<env, report, i, stdout, taskResults, summary, exitCode,
                   fnIn, fnOut>>

\* loadReport: parseJson(reportPath), then main up to its first await.
ParseReport ==
    /\ pc = "parse"
    /\ LET path == ReportPath(ReportFileNames[cand])
       IN  IF file.kind = "json"
           THEN /\ report' = <<file.value>>
                /\ taskResults' = <<>>
                /\ Proceed(file.value, 1, <<>>,
                           Append(events, Ev("parse", 0, [path |-> path, ok |-> TRUE])),
                           IF IsGitHubActions(env) THEN <<SummaryIntro>> ELSE <<>>)
           ELSE /\ pc' = "catch"
                /\ events' = Append(events,
                                Ev("parse", 0, [path |-> path, ok |-> FALSE]))
                /\ UNCHANGED <<report, taskResults, i, stdout, summary, exitCode>>
    /\ UNCHANGED <<env, file, cand, fnIn, fnOut>>

\* The rest of one loop iteration once both streams are captured: the record,
\* the console group, and on to the next await.
FinishAction(evs, out, err) ==
    LET results == Append(taskResults, TaskResult(CurrentAction, out, err))
    IN  /\ taskResults' = results
        /\ Proceed(report[1], i + 1, results,
                   evs \o ConsoleGroup(i, CurrentAction, out, err), summary)

StatEvent(name, exists) ==
    Ev("stat", i, [path |-> LogPath(CurrentId, name), exists |-> exists])

ReadEvent(name, ok) ==
    Ev("read", i, [path |-> LogPath(CurrentId, name), ok |-> ok])

\* readStatus: await fileExists(stdoutPath); a missing file gives "".
StatStdout ==
    /\ pc = "statOut"
    /\ \E f \in LogFiles :
        /\ file' = f
        /\ events' = Append(events, StatEvent("stdout.log", f.kind # "absent"))
        /\ pc' = IF f.kind # "absent" THEN "readOut" ELSE "statErr"
    /\ stdout' = <<>>
    /\ UNCHANGED <<env, cand, report, i, taskResults, summary, exitCode,
                   fnIn, fnOut>>

\* readStatus: await readFile(stdoutPath); it rejects when the file is gone.
ReadStdout ==
    /\ pc = "readOut"
    /\ IF file.kind = "text"
       THEN /\ stdout' = file.value
            /\ events' = Append(events, ReadEvent("stdout.log", TRUE))
            /\ pc' = "statErr"
       ELSE /\ stdout' = stdout
            /\ events' = Append(events, ReadEvent("stdout.log", FALSE))
            /\ pc' = "catch"
    /\ UNCHANGED <<env, file, cand, report, i, taskResults, summary, exitCode,
                   fnIn, fnOut>>

\* readStatus: await fileExists(stderrPath); when it is missing the iteration
\* runs on without another await.
StatStderr ==
    /\ pc = "statErr"
    /\ \E f \in LogFiles :
        /\ file' = f
        /\ IF f.kind # "absent"
           THEN /\ events' = Append(events, StatEvent("stderr.log", TRUE))
                /\ pc' = "readErr"
                /\ UNCHANGED <<i, stdout, taskResults, summary, exitCode>>
           ELSE FinishAction(Append(events, StatEvent("stderr.log", FALSE)),
                             stdout, <<>>)
    /\ UNCHANGED <<env, cand, report, fnIn, fnOut>>

\* readStatus: await readFile(stderrPath), then the rest of the iteration.
ReadStderr ==
    /\ pc = "readErr"
    /\ IF file.kind = "text"
       THEN FinishAction(Append(events, ReadEvent("stderr.log", TRUE)),
                         stdout, file.value)
       ELSE /\ events' = Append(events, ReadEvent("stderr.log", FALSE))
            /\ pc' = "catch"
            /\ UNCHANGED <<i, stdout, taskResults, summary, exitCode>>
    /\ UNCHANGED <<env, file, cand, report, fnIn, fnOut>>

\* The orchestrator's directory is not ours: the file just stat'ed may be
\* removed while main is suspended before reading it.
RemoveFile ==
    /\ pc \in {"parse", "readOut", "readErr"}
    /\ file.kind # "absent"
    /\ file' = Absent
    /\ UNCHANGED <<pc, env, cand, report, i, stdout, taskResults, summary,
                   events, exitCode, fnIn, fnOut>>

\* await summary.write() settles: it resolves, or rejects (no summary file).
WriteSettles ==
    /\ pc = "write"
    /\ \E ok \in BOOLEAN :
        /\ events' = Append(events, Ev("summary.written", 0, ok))
        /\ pc' = IF ok THEN "returned" ELSE "catch"
    /\ UNCHANGED <<env, file, cand, report, i, stdout, taskResults, summary,
                   exitCode, fnIn, fnOut>>

\* await main() rejected: the catch block.
Catch ==
    /\ pc = "catch"
    /\ events' = IF CatchOutcome.logged
                 THEN Append(events, Ev("console.error", 0, <<>>))
                 ELSE events
    /\ exitCode' = <<CatchOutcome.exitCode>>
    /\ pc' = "exited"
    /\ UNCHANGED <<env, file, cand, report, i, stdout, taskResults, summary,
                   fnIn, fnOut>>

\* await main() resolved: the module ends and the process exits normally.
Return ==
    /\ pc = "returned"
    /\ exitCode' = <<0>>
    /\ pc' = "exited"
    /\ UNCHANGED <<env, file, cand, report, i, stdout, taskResults, summary,
                   events, fnIn, fnOut>>

Next ==
    \/ StatReport
    \/ ParseReport
    \/ StatStdout
    \/ ReadStdout
    \/ StatStderr
    \/ ReadStderr
    \/ RemoveFile
    \/ WriteSettles
    \/ Catch
    \/ Return

Spec == Init /\ [][Next]_vars

----------------------------------------------------------------------------
(* The helpers on their own: one application to one drawn argument *)

TargetAlphabet == {"a", "b", ":"}

LogAlphabet == {" ", "\n", "x"}

StatusValues == ActionStatus \cup {"bogus", "success", ""}

CommandValues == {<<>>, <<"">>, <<"npm test">>}

FnIn(fn, target, status, out, err, command) ==
    [fn |-> fn, target |-> target, status |-> status,
     out |-> out, err |-> err, command |-> command]

FnInputs ==
    {FnIn("parseTarget", t, "", <<>>, <<>>, <<>>) :
        t \in Chars(MaxTargetLen, TargetAlphabet)}
    \cup {FnIn("status", <<>>, s, <<>>, <<>>, <<>>) : s \in StatusValues}
    \cup {FnIn("record", <<>>, "", o, e, c) :
            o \in Chars(MaxLogLen, LogAlphabet),
            e \in Chars(MaxLogLen, LogAlphabet),
            c \in CommandValues}

InitFn ==
    /\ pc = "idle"
    /\ env = <<>>
    /\ file = Absent
    /\ cand = 1
    /\ report = <<>>
    /\ i = 0
    /\ stdout = <<>>
    /\ taskResults = <<>>
    /\ summary = <<>>
    /\ events = <<>>
    /\ exitCode = <<>>
    /\ fnIn \in FnInputs
    /\ fnOut = <<>>

ApplyParseTarget ==
    /\ fnIn.fn = "parseTarget"
    /\ fnOut = <<>>
    /\ fnOut' = <<parseTarget(fnIn.target)>>
    /\ UNCHANGED <<pipeVars, fnIn>>

\* Both status mappings, as lines 88 and 111 use them.
ApplyStatus ==
    /\ fnIn.fn = "status"
    /\ fnOut = <<>>
    /\ fnOut' = <<[badge |-> BadgeLookup(fnIn.status),
                   emoji |-> getStatusEmoji(fnIn.status)]>>
    /\ UNCHANGED <<pipeVars, fnIn>>

\* One loop iteration's record and what each renderer makes of it.
ApplyRecord ==
    /\ fnIn.fn = "record"
    /\ fnOut = <<>>
    /\ LET action == Action("run-task", <<"a", ":", "b">>, "passed",
                            <<Op("task-execution", fnIn.command)>>)
           result == TaskResult(action, fnIn.out, fnIn.err)
       IN  fnOut' = <<[result  |-> result,
                       console |-> ConsoleGroup(1, action, fnIn.out, fnIn.err),
                       row     |-> TableRow(result),
                       detail  |-> DetailSection(result)]>>
    /\ UNCHANGED <<pipeVars, fnIn>>

NextFn ==
    \/ ApplyParseTarget
    \/ ApplyStatus
    \/ ApplyRecord

SpecFn == InitFn /\ [][NextFn]_vars

----------------------------------------------------------------------------
(* Claims about the helpers (checked under SpecFn) *)

HasColon(t) == \E n \in 1..Len(t) : t[n] = ":"

FirstColon(t) == CHOOSE n \in 1..Len(t) : t[n] = ":" /\ \A m \in 1..(n - 1) : t[m] # ":"

BeforeFirstColon(t) == IF HasColon(t) THEN SubSeq(t, 1, FirstColon(t) - 1) ELSE t

AfterFirstColon(t) == SubSeq(t, FirstColon(t) + 1, Len(t))

ParseTargetApplied == fnIn.fn = "parseTarget" /\ fnOut # <<>>

\* C4: parseTarget(t) gives project = the text of t before its first colon and
\* task = the text after its first colon, either replaced by "unknown" when
\* absent; "" gives {unknown, unknown}.  (Where the text is empty but the
\* target is not, both the empty text and "unknown" are accepted.)
C4_ParseTargetFirstColon ==
    ParseTargetApplied =>
        LET t == fnIn.target
            r == fnOut[1]
            before == BeforeFirstColon(t)
        IN  /\ r.project \in (IF t = <<>> THEN {Unknown}
                              ELSE IF before = <<>> THEN {Unknown, <<>>}
                              ELSE {before})
            /\ r.task \in (IF ~HasColon(t) THEN {Unknown}
                           ELSE IF AfterFirstColon(t) = <<>> THEN {Unknown, <<>>}
                           ELSE {AfterFirstColon(t)})

StatusApplied == fnIn.fn = "status" /\ fnOut # <<>>

\* C5: for every status value, also one outside ActionStatus, the console
\* badge lookup yields a defined, non-empty badge and getStatusEmoji a
\* non-empty glyph, the unknown glyph for an unrecognized value.
C5_StatusMappingsTotal ==
    StatusApplied =>
        /\ fnOut[1].badge # <<>>
        /\ fnOut[1].badge[1].text # ""
        /\ fnOut[1].emoji # ""
        /\ (fnIn.status \notin
              {"running", "passed", "failed", "timed-out", "aborted", "invalid",
               "failed-and-abort", "skipped", "cached", "cached-from-remote"}
            => fnOut[1].emoji = "question-mark")

RecordApplied == fnIn.fn = "record" /\ fnOut # <<>>

AllWhitespace(text) == \A n \in 1..Len(text) : text[n] \in {" ", "\n", "\t"}

ConsoleLogs(console, what) ==
    \E n \in 1..Len(console) :
        console[n].op = "log" /\ console[n].arg.what = what

ConsolePrints(console, what, text) ==
    \E n \in 1..Len(console) :
        /\ console[n].op = "log"
        /\ console[n].arg.what = what
        /\ console[n].arg.text = <<text>>

DetailHas(detail, el, data) ==
    \E n \in 1..Len(detail) : detail[n].el = el /\ detail[n].data = data

StreamStored(text, field, flag, console, what, detail, heading) ==
    /\ (field = <<>>) <=> AllWhitespace(text)
    /\ field # <<>> => field = <<text>>
    /\ flag <=> field # <<>>
    /\ ConsoleLogs(console, what) <=> field # <<>>
    /\ field # <<>> => ConsolePrints(console, what, text)
    /\ DetailHas(detail, "heading4", heading) <=> field # <<>>
    /\ field # <<>> => DetailHas(detail, "codeBlock.text", <<text>>)

\* C8: in every task result record, for stdout and stderr independently, the
\* field is absent exactly when the captured text is all whitespace (or
\* empty), otherwise it is the text as read, untrimmed; the has-flag is true
\* exactly when the field is present; a renderer prints an output section
\* exactly for a present field.
C8_OutputPresentIffNonBlank ==
    RecordApplied =>
        LET r == fnOut[1].result
        IN  /\ StreamStored(fnIn.out, r.stdout, r.hasStdout, fnOut[1].console,
                            "stdout", fnOut[1].detail, "STDOUT")
            /\ StreamStored(fnIn.err, r.stderr, r.hasStderr, fnOut[1].console,
                            "stderr", fnOut[1].detail, "STDERR")
            /\ fnOut[1].row.outputs =
                 IF r.stdout = <<>> /\ r.stderr = <<>> THEN <<"-">>
                 ELSE (IF r.stdout # <<>> THEN <<"stdout">> ELSE <<>>)
                      \o (IF r.stderr # <<>> THEN <<"stderr">> ELSE <<>>)

\* A stdout kept with the whitespace around it, beside a blank stderr.
C8_Witness ==
    /\ RecordApplied
    /\ fnIn.out = <<" ", "x", "\n">>
    /\ fnIn.err = <<"\n", " ">>
    /\ fnOut[1].result.stdout = <<fnIn.out>>
    /\ fnOut[1].result.stderr = <<>>

\* C10: for every command value (absent, "", non-empty) the console prints
\* the `$ command` line if and only if the summary's Command cell shows the
\* command rather than the dash and the detail section has the command block.
C10_RenderersAgreeOnCommand ==
    RecordApplied =>
        (ConsoleLogs(fnOut[1].console, "command")
            <=> /\ fnOut[1].row.command # "-"
                /\ \E n \in 1..Len(fnOut[1].detail) :
                       fnOut[1].detail[n].el = "codeBlock.bash")

----------------------------------------------------------------------------
(* Claims about the pipeline (checked under Spec) *)

IsRunTaskKind(a) == a.node.action = "run-task"

IsStartGroup(e) == e.op = "startGroup"

IsTable(el) == el.el = "table"

IsHeading3(el) == el.el = "heading3"

IsGroupEvent(e) == e.op \in {"startGroup", "log", "endGroup"}

IsLogFileEvent(e) == e.op \in {"stat", "read"} /\ e.i > 0

IsOrdered(e) == IsGroupEvent(e) \/ IsLogFileEvent(e)

Count(op) == Cardinality({n \in 1..Len(events) : events[n].op = op})

\* The report's run-task actions, in report order, and their positions.
RunTaskActions ==
    IF report = <<>> THEN <<>> ELSE SelectSeq(report[1].actions, IsRunTaskKind)

RunTaskIndices ==
    IF report = <<>> THEN {}
    ELSE {n \in 1..Len(report[1].actions) : IsRunTaskKind(report[1].actions[n])}

\* Position in the report of the k-th run-task action.
RunTaskIndex(k) ==
    CHOOSE n \in RunTaskIndices :
        Cardinality({m \in RunTaskIndices : m <= n}) = k

Groups == SelectSeq(events, IsStartGroup)

TableRows ==
    IF summary = <<>> THEN <<>>
    ELSE LET tables == SelectSeq(summary[1], IsTable)
         IN  IF tables = <<>> THEN <<>> ELSE tables[1].data

Sections == IF summary = <<>> THEN <<>> ELSE SelectSeq(summary[1], IsHeading3)

ExpectedTarget(a) == TargetOf(parseTarget(a.node.target))

\* C1: when a run completes, the console holds exactly one group per run-task
\* action of the report, in report order, and with the CI flag set the summary
\* holds exactly one table row and one detail section per run-task action, in
\* that same order; nothing is produced for another kind of action.
C1_EntriesFollowRunTaskOrder ==
    (pc = "returned" /\ report # <<>>) =>
        LET N == Len(RunTaskActions)
        IN  /\ Len(Groups) = N
            /\ \A k \in 1..N :
                /\ Groups[k].i = RunTaskIndex(k)
                /\ Groups[k].arg.target = ExpectedTarget(RunTaskActions[k])
            /\ Count("endGroup") = N
            /\ env = <<"true">> =>
                /\ Len(TableRows) = N
                /\ Len(Sections) = N
                /\ \A k \in 1..N :
                    /\ TableRows[k].task = ExpectedTarget(RunTaskActions[k])
                    /\ TableRows[k].status.raw = RunTaskActions[k].status
                    /\ Sections[k].data = ExpectedTarget(RunTaskActions[k])

\* A completed CI run over three actions: two different run-task actions
\* around one of another kind, one with an unknown status and a missing log.
C1_Witness ==
    /\ pc = "returned"
    /\ env = <<"true">>
    /\ report # <<>>
    /\ Len(report[1].actions) = 3
    /\ ~IsRunTaskKind(report[1].actions[2])
    /\ Len(RunTaskActions) = 2
    /\ RunTaskActions[1].status = "bogus"
    /\ RunTaskActions[1].node.target # RunTaskActions[2].node.target
    /\ \E n \in 1..Len(events) :
           events[n].op = "stat" /\ events[n].i = 1 /\ ~events[n].arg.exists
    /\ Len(TableRows) = 2

\* C2: summary.write() is invoked at most once; exactly once when the run
\* completes with the CI flag "true" and at least one task result; never when
\* the flag is not "true" or the report has no run-task action, and then no
\* console group is emitted either.
C2_SummaryWrittenOnceIfActive ==
    LET N == Len(RunTaskActions)
    IN  /\ Count("summary.write") <= 1
        /\ (pc = "returned" /\ env = <<"true">> /\ N >= 1)
              => Count("summary.write") = 1
        /\ (env # <<"true">> \/ N = 0) => Count("summary.write") = 0
        /\ (report # <<>> /\ N = 0 /\ pc \in {"returned", "exited"})
              => Count("startGroup") = 0 /\ Count("stat") <= Len(ReportFileNames)

C2_Witness ==
    /\ pc = "returned"
    /\ env = <<"true">>
    /\ Len(taskResults) >= 1
    /\ Count("summary.write") = 1

ReportStat(name, exists) ==
    \E n \in 1..Len(events) :
        /\ events[n].op = "stat"
        /\ events[n].arg.path.name = name
        /\ events[n].arg.exists = exists

ReportTouched(name) ==
    \E n \in 1..Len(events) :
        events[n].op \in {"stat", "parse"} /\ events[n].arg.path.name = name

ReportParsed(name) ==
    \E n \in 1..Len(events) :
        events[n].op = "parse" /\ events[n].arg.path.name = name

\* C3: loadReport checks ciReport.json, then runReport.json, and parses the
\* first that exists: when ciReport.json exists runReport.json is neither
\* checked nor parsed; runReport.json is parsed only when ciReport.json does
\* not exist; what is returned is the parse of the file just found; null is
\* returned only when neither exists.
C3_FirstExistingReportWins ==
    /\ events # <<>> =>
          events[1].op = "stat" /\ events[1].arg.path.name = "ciReport.json"
    /\ ReportStat("ciReport.json", TRUE) => ~ReportTouched("runReport.json")
    /\ ReportTouched("runReport.json") => ReportStat("ciReport.json", FALSE)
    /\ ReportParsed("ciReport.json") => ReportStat("ciReport.json", TRUE)
    /\ ReportParsed("runReport.json") => ReportStat("runReport.json", TRUE)
    /\ (ReportStat("ciReport.json", TRUE) /\ pc # "parse")
          => ReportParsed("ciReport.json")
    /\ (ReportStat("runReport.json", TRUE) /\ pc # "parse")
          => ReportParsed("runReport.json")
    /\ Count("parse") <= 1
    /\ report # <<>> => Count("parse") = 1
    /\ (report # <<>> /\ events[Len(events)].op = "parse")
          => file = Json(report[1]) /\ events[Len(events)].arg.ok
    /\ Count("warning") = 1
          <=> (ReportStat("ciReport.json", FALSE) /\ ReportStat("runReport.json", FALSE))
    /\ Count("warning") = 1 => report = <<>> /\ Count("parse") = 0

\* ciReport.json existed and was loaded; runReport.json was left alone.
C3_Witness ==
    /\ ReportStat("ciReport.json", TRUE)
    /\ report # <<>>
    /\ Len(report[1].actions) > 0
    /\ ~ReportTouched("runReport.json")

Failed(e) ==
    \/ e.op \in {"parse", "read"} /\ ~e.arg.ok
    \/ e.op = "summary.written" /\ ~e.arg

\* C6: every run that ends, ends with exit code 0: a missing report, a report
\* that fails to parse, a failing log read and a failing summary write all end
\* in a normal return or in the top-level catch, which logs and exits with 0.
C6_AlwaysExitsZero ==
    /\ pc \in {"statReport", "parse", "statOut", "readOut", "statErr", "readErr",
               "write", "returned", "catch", "exited"}
    /\ pc = "exited" <=> exitCode # <<>>
    /\ exitCode # <<>> => exitCode = <<0>>
    /\ (\E n \in 1..Len(events) : Failed(events[n]))
          => /\ pc \in {"catch", "exited"}
             /\ pc = "exited" => Count("console.error") = 1
    /\ pc = "catch" => ENABLED Catch
    /\ pc = "returned" => ENABLED Return

\* A log file vanished before its read: the catch logged it and exited 0.
C6_Witness ==
    /\ pc = "exited"
    /\ exitCode = <<0>>
    /\ \E n \in 1..Len(events) : events[n].op = "read" /\ ~events[n].arg.ok

\* C7: readStatus never surfaces a missing log file as an error: a stream
\* whose file is absent is "", one whose file is present is its content, and
\* no read of a log file fails, also when the file goes away between the
\* existence check and the read.
C7_MissingLogNeverAnError ==
    /\ \A n \in 1..Len(events) : events[n].op = "read" => events[n].arg.ok
    /\ pc = "statErr" =>
          LET e == events[Len(events)]
          IN  IF e.op = "stat" THEN ~e.arg.exists /\ stdout = <<>>
              ELSE e.op = "read" /\ stdout = file.value

\* C9: each group is opened and closed with only its own lines between (no
\* nesting, nothing left open, in aborted runs too); group k comes after the
\* stats of action k's two log files and before any log file of a later action
\* is touched (the log-file and group events are ordered by action, an
\* action's log-file events before its group, and every earlier run-task
\* action has its group by then), and no group or log-file event comes after
\* the summary is built and written.
C9_GroupsStreamedAndBracketed ==
    /\ \A p \in 1..Len(events) :
        /\ events[p].op \in {"startGroup", "log"} =>
              /\ p < Len(events)
              /\ events[p + 1].op \in {"log", "endGroup"}
              /\ events[p + 1].i = events[p].i
        /\ events[p].op \in {"log", "endGroup"} =>
              /\ p > 1
              /\ events[p - 1].op \in {"startGroup", "log"}
        /\ (events[p].op = "startGroup" /\ p > 1) =>
              events[p - 1].op \notin {"startGroup", "log"}
    /\ Count("startGroup") = Count("endGroup")
    /\ \A p \in 1..Len(events) :
        events[p].op = "startGroup" =>
            \A name \in {"stdout.log", "stderr.log"} :
                \E m \in 1..(p - 1) :
                    /\ events[m].op = "stat"
                    /\ events[m].i = events[p].i
                    /\ events[m].arg.path.name = name
    /\ LET E == SelectSeq(events, IsOrdered)
       IN  \A n \in 1..(Len(E) - 1) :
               /\ E[n].i <= E[n + 1].i
               /\ (IsGroupEvent(E[n]) /\ IsLogFileEvent(E[n + 1]))
                     => E[n].i < E[n + 1].i
    /\ \A k \in RunTaskIndices :
        (\E q \in 1..Len(events) : events[q].i > k)
            => \E p \in 1..Len(events) :
                   events[p].op = "endGroup" /\ events[p].i = k
    /\ \A p \in 1..Len(events) :
        events[p].op = "summary.write" =>
            \A q \in (p + 1)..Len(events) : ~IsOrdered(events[q])

\* A run that printed a whole group and then aborted on a later log read.
C9_Witness ==
    /\ pc = "exited"
    /\ \E p, q \in 1..Len(events) :
        /\ p < q
        /\ events[p].op = "endGroup"
        /\ events[q].op = "read"
        /\ ~events[q].arg.ok

====
